---- MODULE Spec2Model ----
(***************************************************************************)
(* A model of MCP (src/main.py): the project indexer scan_project, the     *)
(* structural analyzer analyze_python_file, search_code, the pattern       *)
(* scanner find_bugs and update_file.                                      *)
(*                                                                         *)
(* Strings are sequences of one-character strings, so that slicing,        *)
(* concatenation, newline counting and regular-expression matching are     *)
(* computed, not assumed.  A file holds a program: a sequence of source    *)
(* fragments of a fixed catalogue.  Text renders the program as the        *)
(* characters on disk; Parse gives what ast.parse returns for that text.   *)
(***************************************************************************)
EXTENDS Integers, Sequences, FiniteSets, TLC

VARIABLES disk, files, structure, op, ret, lastScan

vars == <<disk, files, structure, op, ret, lastScan>>

(***************************************************************************)
(* Bounds of the model.                                                    *)
(***************************************************************************)
\* The longest program: the number of catalogue fragments in one file.
MaxFrags == 2
\* The length of the catalogue's comment line (longer than the context width).
PadLen == 60

(***************************************************************************)
(* Generic helpers.                                                        *)
(***************************************************************************)
Max(a, b) == IF a >= b THEN a ELSE b

Min(a, b) == IF a <= b THEN a ELSE b

RECURSIVE JoinLines(_)
\* "\n".join(lines)
JoinLines(ls) ==
  IF ls = <<>> THEN <<>>
  ELSE IF Len(ls) = 1 THEN ls[1]
  ELSE ls[1] \o <<"\n">> \o JoinLines(Tail(ls))

\* content[:n].count('\n'), n the number of leading characters looked at
CountNewlines(t, n) == Cardinality({i \in 1..n : t[i] = "\n"})

(***************************************************************************)
(* Regular expressions (module re).  A pattern is a sequence of items,     *)
(* each a character class with a quantifier: "1" (exactly one), "*" or     *)
(* "+" (greedy).  Every pattern of find_bugs has this shape.               *)
(***************************************************************************)
Lit(c) == [cls |-> [neg |-> FALSE, set |-> {c}], q |-> "1"]

RECURSIVE Lits(_)
Lits(s) == IF s = <<>> THEN <<>> ELSE <<Lit(Head(s))>> \o Lits(Tail(s))

\* \s for the ASCII text of the model
SpaceChars == {" ", "\t", "\n", "\r", "\f"}

Spaces(q) == [cls |-> [neg |-> FALSE, set |-> SpaceChars], q |-> q]

\* . matches anything but a newline
Dot(q) == [cls |-> [neg |-> TRUE, set |-> {"\n"}], q |-> q]

NoneOf(set, q) == [cls |-> [neg |-> TRUE, set |-> set], q |-> q]

InClass(c, cls) == IF cls.neg THEN c \notin cls.set ELSE c \in cls.set

NoMatch == 0

RECURSIVE RunLen(_, _, _)
\* how many consecutive characters from position p are in the class,
\* looked for sixteen characters at a time
RunLen(t, p, cls) ==
  LET hi == Min(Len(t), p + 15)
      stops == {i \in p..hi : ~InClass(t[i], cls)}
  IN IF stops # {} THEN (CHOOSE i \in stops : \A j \in stops : i <= j) - p
     ELSE IF hi = Len(t) THEN Len(t) + 1 - p
     ELSE hi + 1 - p + RunLen(t, hi + 1, cls)

RECURSIVE MatchAt(_, _, _, _)
\* The backtracking matcher anchored at position p for items k.. of re:
\* the position after the match, or NoMatch.  A repetition is greedy: it
\* takes the most characters for which the rest of the pattern matches.
MatchAt(t, p, re, k) ==
  IF k > Len(re) THEN p
  ELSE IF re[k].q = "1"
       THEN IF p <= Len(t) /\ InClass(t[p], re[k].cls)
            THEN MatchAt(t, p + 1, re, k + 1)
            ELSE NoMatch
       ELSE LET run == RunLen(t, p, re[k].cls)
                lo == IF re[k].q = "+" THEN 1 ELSE 0
                \* the lengths after which the next item can match at all
                open == IF k < Len(re) /\ re[k + 1].q = "1"
                        THEN {n \in lo..run : /\ p + n <= Len(t)
                                              /\ InClass(t[p + n], re[k + 1].cls)}
                        ELSE lo..run
                fits == {n \in open : MatchAt(t, p + n, re, k + 1) # NoMatch}
            IN IF fits = {} THEN NoMatch
               ELSE MatchAt(t, p + (CHOOSE n \in fits : \A m \in fits : m <= n),
                            re, k + 1)

RECURSIVE NextMatches(_, _, _, _)
\* the matches from position pos on, given the positions at which the
\* pattern matches: the leftmost first, the next one no earlier than its end
NextMatches(t, re, starts, pos) ==
  LET later == {p \in starts : p >= pos}
  IN IF later = {} THEN <<>>
     ELSE LET p == CHOOSE x \in later : \A y \in later : x <= y
              e == MatchAt(t, p, re, 1)
          IN <<[start |-> p, end |-> e]>>
             \o NextMatches(t, re, starts, IF e > p THEN e ELSE p + 1)

\* re.finditer(pattern, content) from position pos: the non-overlapping
\* matches, leftmost first, each [start, end) in 1-based positions.
FindIter(t, re, pos) ==
  NextMatches(t, re, {p \in pos..Len(t) : MatchAt(t, p, re, 1) # NoMatch}, pos)

\* A faulty LineNumber: the newline count without the + 1.
LineNumberZeroBased(t, m) == CountNewlines(t, m.start - 1)

\* content[:match.start()].count('\n') + 1
LineNumber(t, m) == CountNewlines(t, m.start - 1) + 1

(***************************************************************************)
(* The syntax tree (module ast).  A node is a record; `body` holds its     *)
(* statement children in the order ast.iter_child_nodes yields them.       *)
(* Expression children hold no statement and match none of the analyzer's  *)
(* isinstance tests, so they are left out of `body`.  As in the ast        *)
(* module, a node has no `parent` field.                                   *)
(***************************************************************************)
\* node.module of `from . import y`
None == <<"<None>">>

Node(type, lineno, name, args, module, names, body) ==
  [type |-> type, lineno |-> lineno, name |-> name, args |-> args,
   module |-> module, names |-> names, body |-> body]

Import(lineno, names) == Node("Import", lineno, <<>>, <<>>, None, names, <<>>)

ImportFrom(lineno, module, names) ==
  Node("ImportFrom", lineno, <<>>, <<>>, module, names, <<>>)

ClassDef(lineno, name, body) ==
  Node("ClassDef", lineno, name, <<>>, None, <<>>, body)

FunctionDef(lineno, name, args, body) ==
  Node("FunctionDef", lineno, name, args, None, <<>>, body)

\* names: the Name targets of the assignment
Assign(lineno, names) == Node("Assign", lineno, <<>>, <<>>, None, names, <<>>)

\* any other statement or handler: Try, ExceptHandler, If, For, Return, Pass, Expr
Stmt(lineno, body) == Node("Stmt", lineno, <<>>, <<>>, None, <<>>, body)

(***************************************************************************)
(* The catalogue of source fragments.  A fragment is some lines of Python, *)
(* the top-level nodes ast.parse builds for them (line numbers relative to *)
(* the fragment's first line, which is line 1), and `bad`: the relative    *)
(* line at which ast.parse raises SyntaxError, or 0.                       *)
(***************************************************************************)
Frag(lines, nodes, bad) == [lines |-> lines, nodes |-> nodes, bad |-> bad]

\* import a
FragImport ==
  Frag(<< <<"i","m","p","o","r","t"," ","a">> >>,
       << Import(1, << <<"a">> >>) >>, 0)

\* from x import y
FragFrom ==
  Frag(<< <<"f","r","o","m"," ","x"," ","i","m","p","o","r","t"," ","y">> >>,
       << ImportFrom(1, <<"x">>, << <<"y">> >>) >>, 0)

\* from . import y
FragFromRel ==
  Frag(<< <<"f","r","o","m"," ","."," ","i","m","p","o","r","t"," ","y">> >>,
       << ImportFrom(1, None, << <<"y">> >>) >>, 0)

\* def f(a):
\*  try:
\*   return d.get(a)
\*  except Exception:
\*   pass
FragDef ==
  Frag(<< <<"d","e","f"," ","f","(","a",")",":">>,
          <<" ","t","r","y",":">>,
          <<" "," ","r","e","t","u","r","n"," ","d",".","g","e","t","(","a",")">>,
          <<" ","e","x","c","e","p","t"," ","E","x","c","e","p","t","i","o","n",":">>,
          <<" "," ","p","a","s","s">> >>,
       << FunctionDef(1, <<"f">>, << <<"a">> >>,
            << Stmt(2, << Stmt(3, <<>>), Stmt(4, << Stmt(5, <<>>) >>) >>) >>) >>,
       0)

\* class C:
\*  def m(self):
\*   print(self)
FragClass ==
  Frag(<< <<"c","l","a","s","s"," ","C",":">>,
          <<" ","d","e","f"," ","m","(","s","e","l","f",")",":">>,
          <<" "," ","p","r","i","n","t","(","s","e","l","f",")">> >>,
       << ClassDef(1, <<"C">>,
            << FunctionDef(2, <<"m">>, << <<"s","e","l","f">> >>,
                 << Stmt(3, <<>>) >>) >>) >>,
       0)

\* x = []
\* for i in y: x.append(i)
FragList ==
  Frag(<< <<"x"," ","="," ","[","]">>,
          <<"f","o","r"," ","i"," ","i","n"," ","y",":"," ","x",".","a","p","p","e","n","d","(","i",")">> >>,
       << Assign(1, << <<"x">> >>), Stmt(2, << Stmt(2, <<>>) >>) >>,
       0)

\* try:
\*  pass
\* except:
\*  pass
FragTry ==
  Frag(<< <<"t","r","y",":">>,
          <<" ","p","a","s","s">>,
          <<"e","x","c","e","p","t",":">>,
          <<" ","p","a","s","s">> >>,
       << Stmt(1, << Stmt(2, <<>>), Stmt(3, << Stmt(4, <<>>) >>) >>) >>,
       0)

\* if x == True:
\*  pass
\* elif x == False:
\*  pass
FragIf ==
  Frag(<< <<"i","f"," ","x"," ","=","="," ","T","r","u","e",":">>,
          <<" ","p","a","s","s">>,
          <<"e","l","i","f"," ","x"," ","=","="," ","F","a","l","s","e",":">>,
          <<" ","p","a","s","s">> >>,
       << Stmt(1, << Stmt(2, <<>>), Stmt(3, << Stmt(4, <<>>) >>) >>) >>,
       0)

\* abc
FragAbc == Frag(<< <<"a","b","c">> >>, << Stmt(1, <<>>) >>, 0)

\* abc
\* def                       (SyntaxError at the second line)
FragAbcDef == Frag(<< <<"a","b","c">>, <<"d","e","f">> >>, <<>>, 2)

\* #---------...             (a comment line: no node)
FragPad == Frag(<< [i \in 1..PadLen |-> IF i = 1 THEN "#" ELSE "-"] >>, <<>>, 0)

FragNames ==
  {"import", "from", "fromrel", "def", "class", "list", "try", "if", "abc",
   "abcdef", "pad"}

Fragment(n) ==
  CASE n = "import"  -> FragImport
    [] n = "from"    -> FragFrom
    [] n = "fromrel" -> FragFromRel
    [] n = "def"     -> FragDef
    [] n = "class"   -> FragClass
    [] n = "list"    -> FragList
    [] n = "try"     -> FragTry
    [] n = "if"      -> FragIf
    [] n = "abc"     -> FragAbc
    [] n = "abcdef"  -> FragAbcDef
    [] n = "pad"     -> FragPad

RECURSIVE ProgramLines(_)
ProgramLines(prog) ==
  IF prog = <<>> THEN <<>>
  ELSE Fragment(Head(prog)).lines \o ProgramLines(Tail(prog))

\* the characters of the file that holds the program
Text(prog) == JoinLines(ProgramLines(prog))

RECURSIVE Shift(_, _)
\* the node with every line number moved down by d lines
Shift(node, d) ==
  [node EXCEPT !.lineno = @ + d,
               !.body = [i \in 1..Len(node.body) |-> Shift(node.body[i], d)]]

RECURSIVE ParseFrom(_, _)
\* the fragments from line `base` + 1 on: the top-level nodes, or the line of
\* the first syntax error
ParseFrom(prog, base) ==
  IF prog = <<>> THEN [ok |-> TRUE, body |-> <<>>, lineno |-> 0]
  ELSE LET f == Fragment(Head(prog))
       IN IF f.bad # 0
          THEN [ok |-> FALSE, body |-> <<>>, lineno |-> base + f.bad]
          ELSE LET rest == ParseFrom(Tail(prog), base + Len(f.lines))
               IN IF rest.ok
                  THEN [rest EXCEPT !.body =
                          [i \in 1..Len(f.nodes) |-> Shift(f.nodes[i], base)] \o @]
                  ELSE rest

\* ast.parse(content): the Module node, or a SyntaxError with lineno and msg
Parse(prog) ==
  LET r == ParseFrom(prog, 0)
  IN IF r.ok
     THEN [ok |-> TRUE,
           tree |-> Node("Module", 0, <<>>, <<>>, None, <<>>, r.body)]
     ELSE [ok |-> FALSE, lineno |-> r.lineno, msg |-> "invalid syntax"]

RECURSIVE WalkQueue(_)
\* ast.walk: breadth first, a node before its children
WalkQueue(todo) ==
  IF todo = <<>> THEN <<>>
  ELSE <<Head(todo)>> \o WalkQueue(Tail(todo) \o Head(todo).body)

Walk(tree) == WalkQueue(<<tree>>)

(***************************************************************************)
(* analyze_python_file                                                     *)
(***************************************************************************)
\* a dict: a function from its keys; {} has no key
EmptyDict == [k \in {} |-> <<>>]

\* d[key] = value
DictSet(d, key, value) ==
  [k \in DOMAIN d \cup {key} |-> IF k = key THEN value ELSE d[k]]

\* d[key].append(value)
DictAppend(d, key, value) == [d EXCEPT ![key] = Append(@, value)]

NewAnalysis ==
  [imports |-> <<>>, classes |-> <<>>, functions |-> <<>>, variables |-> <<>>]

\* f"{module}.{name.name}" with module = node.module if node.module else ''
Qualified(node, name) ==
  (IF node.module # None /\ node.module # <<>> THEN node.module ELSE <<>>)
    \o <<".">> \o name

RECURSIVE AppendAll(_, _, _)
\* for v in values: analysis[key].append(v)
AppendAll(analysis, key, values) ==
  IF values = <<>> THEN analysis
  ELSE AppendAll(DictAppend(analysis, key, Head(values)), key, Tail(values))

\* the method or function record of a FunctionDef
FunctionInfo(node) ==
  [name |-> node.name, line |-> node.lineno, args |-> node.args]

\* the class record: the FunctionDef items of the class body are its methods
ClassInfo(node) ==
  [name |-> node.name,
   methods |-> LET fs == SelectSeq(node.body, LAMBDA item : item.type = "FunctionDef")
               IN [i \in 1..Len(fs) |-> FunctionInfo(fs[i])],
   line |-> node.lineno]

\* str(e) of the AttributeError that reading a missing attribute raises
AttributeError(node, attr) ==
  <<"'", node.type, "' object has no attribute '", attr, "'">>

\* analysis['error'] = f"Syntax error at line {e.lineno}: {e.msg}"
SyntaxErrorText(e) == <<"Syntax error at line ", e.lineno, ": ", e.msg>>

\* One pass of the loop body for `node`: the analysis after it, and whether
\* the pass raised (an exception leaves the loop for the handler).
Visit(analysis, node, tree) ==
  CASE node.type = "Import" ->
         [raised |-> FALSE,
          analysis |-> AppendAll(analysis, "imports", node.names)]
    [] node.type = "ImportFrom" ->
         [raised |-> FALSE,
          analysis |-> AppendAll(analysis, "imports",
                         [i \in 1..Len(node.names) |-> Qualified(node, node.names[i])])]
    [] node.type = "ClassDef" ->
         [raised |-> FALSE,
          analysis |-> DictAppend(analysis, "classes", ClassInfo(node))]
    [] node.type = "FunctionDef" ->
         IF "parent" \notin DOMAIN node
         THEN [raised |-> TRUE,
               analysis |-> DictSet(analysis, "error", AttributeError(node, "parent"))]
         ELSE IF node.parent.type # "ClassDef"
              THEN [raised |-> FALSE,
                    analysis |-> DictAppend(analysis, "functions", FunctionInfo(node))]
              ELSE [raised |-> FALSE, analysis |-> analysis]
    [] node.type = "Assign" ->
         IF "parent" \notin DOMAIN node
         THEN [raised |-> TRUE,
               analysis |-> DictSet(analysis, "error", AttributeError(node, "parent"))]
         ELSE IF node.parent = tree
              THEN [raised |-> FALSE,
                    analysis |-> AppendAll(analysis, "variables",
                                   [i \in 1..Len(node.names) |->
                                      [name |-> node.names[i], line |-> node.lineno]])]
              ELSE [raised |-> FALSE, analysis |-> analysis]
    [] OTHER -> [raised |-> FALSE, analysis |-> analysis]

RECURSIVE Extract(_, _, _)

\* A faulty Extract: the handler starts the analysis over, so what was
\* collected before the exception is lost.
ExtractDropsCollected(analysis, nodes, tree) ==
  IF nodes = <<>> THEN analysis
  ELSE LET v == Visit(analysis, Head(nodes), tree)
       IN IF v.raised THEN DictSet(NewAnalysis, "error", v.analysis.error)
          ELSE Extract(v.analysis, Tail(nodes), tree)

\* for node in ast.walk(tree): ... inside the try block
Extract(analysis, nodes, tree) ==
  IF nodes = <<>> THEN analysis
  ELSE LET v == Visit(analysis, Head(nodes), tree)
       IN IF v.raised THEN v.analysis
          ELSE Extract(v.analysis, Tail(nodes), tree)

\* the result of analyze_python_file for the content _read_file returned
Analyze(content) ==
  IF Text(content) = <<>> THEN EmptyDict
  ELSE LET parsed == Parse(content)
       IN IF parsed.ok
          THEN Extract(NewAnalysis, Walk(parsed.tree), parsed.tree)
          ELSE DictSet(NewAnalysis, "error", SyntaxErrorText(parsed))

(***************************************************************************)
(* Paths and the file system.  A path is the sequence of its components,   *)
(* a component a string; an absolute path starts with the component "/".   *)
(***************************************************************************)
Root == <<"/">>

\* self.project_path
ProjectPath == << Root, <<"p","r","o","j">> >>

\* os.path.isabs
IsAbs(path) == path # <<>> /\ path[1] = Root

\* os.path.join(a, b) for a relative b
Join(a, b) == a \o b

NameA == <<"a",".","p","y">>
NameB == <<"b",".","p","y">>
NameC == <<"c",".","p","y">>
NameD == <<"d",".","j","s">>
NameSub == <<"s","u","b">>
NameGone == <<"g","o","n","e">>

PathA == Join(ProjectPath, <<NameA>>)
PathB == Join(ProjectPath, <<NameB>>)
PathC == Join(ProjectPath, <<NameSub, NameC>>)
PathD == Join(ProjectPath, <<NameD>>)
\* a path in a directory that does not exist
PathGone == Join(ProjectPath, <<NameGone, NameA>>)

\* the directories of the project in os.walk's top-down order, each with the
\* file names it may hold in listing order
Tree ==
  << [dir |-> <<>>, names |-> <<NameA, NameB, NameD>>],
     [dir |-> <<NameSub>>, names |-> <<NameC>>] >>

\* every path a file of the project may have
FilePaths == {PathA, PathB, PathC, PathD}

\* no such file
Absent == [exists |-> FALSE, content |-> <<>>, mode |-> "rw"]

\* a file holding the program; mode "none": neither readable nor writable
File(content, mode) == [exists |-> TRUE, content |-> content, mode |-> mode]

\* _read_file: the content, or "" when open() raises
ReadFile(d, path) ==
  IF path \in DOMAIN d /\ d[path].exists /\ d[path].mode = "rw"
  THEN d[path].content
  ELSE <<>>

\* os.path.getsize
GetSize(d, path) == Len(Text(d[path].content))

(***************************************************************************)
(* scan_project                                                            *)
(***************************************************************************)
RECURSIVE FnMatch(_, _)
\* fnmatch.fnmatch(name, pattern) for patterns of literals, * and ?
FnMatch(name, pat) ==
  IF pat = <<>> THEN name = <<>>
  ELSE IF Head(pat) = "*"
       THEN \E k \in 0..Len(name) :
              FnMatch(SubSeq(name, k + 1, Len(name)), Tail(pat))
       ELSE /\ name # <<>>
            /\ Head(pat) = "?" \/ Head(pat) = Head(name)
            /\ FnMatch(Tail(name), Tail(pat))

\* os.path.splitext(file)[1][1:]: what follows the last dot, unless the name
\* has no dot after its leading dots
SplitExtType(name) ==
  LET dots == {i \in 1..Len(name) : name[i] = "."}
      lead == {i \in 1..Len(name) : \A j \in 1..i : name[j] = "."}
  IN IF dots \subseteq lead THEN <<>>
     ELSE LET last == CHOOSE i \in dots : \A j \in dots : j <= i
          IN SubSeq(name, last + 1, Len(name))

\* an Optional argument: None, or a value
NoArg == [some |-> FALSE, val |-> <<>>]

Some(v) == [some |-> TRUE, val |-> v]

\* file_types when the argument is None
DefaultFileTypes ==
  << <<"*",".","p","y">>, <<"*",".","j","s">>, <<"*",".","h","t","m","l">>,
     <<"*",".","c","s","s">>, <<"*",".","j","s","o","n">> >>

\* {'dirs': {}, 'files': []}
NewLevel == [dirs |-> EmptyDict, files |-> <<>>]

RECURSIVE EnsureLevel(_, _)
\* the navigation loop: every directory on the way gets its dictionary
EnsureLevel(level, parts) ==
  IF parts = <<>> THEN level
  ELSE LET sub == IF Head(parts) \in DOMAIN level.dirs
                  THEN level.dirs[Head(parts)] ELSE NewLevel
       IN [level EXCEPT !.dirs = DictSet(@, Head(parts), EnsureLevel(sub, Tail(parts)))]

RECURSIVE AppendFile(_, _, _)
\* current_level['files'].append(file), current_level the level at parts
AppendFile(level, parts, file) ==
  IF parts = <<>> THEN [level EXCEPT !.files = Append(@, file)]
  ELSE [level EXCEPT !.dirs[Head(parts)] = AppendFile(@, Tail(parts), file)]

\* an insertion-ordered dict as the sequence of its items
KeysOf(items) == [i \in 1..Len(items) |-> items[i].key]

HasKey(items, key) == \E i \in 1..Len(items) : items[i].key = key

Lookup(items, key) == items[CHOOSE i \in 1..Len(items) : items[i].key = key].value

\* items[key] = value: a known key keeps its place
ItemSet(items, key, value) ==
  IF HasKey(items, key)
  THEN [i \in 1..Len(items) |->
          IF items[i].key = key THEN [key |-> key, value |-> value] ELSE items[i]]
  ELSE Append(items, [key |-> key, value |-> value])

\* A faulty ScanStart: self.files is not emptied.
ScanStartKeepsOld(old) == old

\* self.files = {} at the start of a scan
ScanStart(old) == <<>>

\* the entry of self.files for `file` in directory `dir` (relative to the project)
FileInfo(d, dir, file) ==
  LET full_path == Join(Join(ProjectPath, dir), <<file>>)
  IN [path |-> full_path,
      rel_path |-> Join(dir, <<file>>),
      type |-> SplitExtType(file),
      size |-> GetSize(d, full_path)]

RECURSIVE ScanFiles(_, _, _, _)
\* for file in files: the first matching pattern indexes the file
ScanFiles(state, d, entry, names) ==
  IF names = <<>> THEN state
  ELSE LET file == Head(names)
           full_path == Join(Join(ProjectPath, entry.dir), <<file>>)
           hit == /\ d[full_path].exists
                  /\ \E i \in 1..Len(state.types) : FnMatch(file, state.types[i])
           next == IF hit
                   THEN [state EXCEPT
                           !.structure = AppendFile(@, entry.dir, file),
                           !.files = ItemSet(@, full_path, FileInfo(d, entry.dir, file))]
                   ELSE state
       IN ScanFiles(next, d, entry, Tail(names))

RECURSIVE ScanDirs(_, _, _)
\* for root, dirs, files in os.walk(self.project_path)
ScanDirs(state, d, entries) ==
  IF entries = <<>> THEN state
  ELSE LET entry == Head(entries)
           here == [state EXCEPT !.structure = EnsureLevel(@, entry.dir)]
       IN ScanDirs(ScanFiles(here, d, entry, entry.names), d, Tail(entries))

\* scan_project(file_types): the new self.files and self.structure
Scan(old, d, file_types) ==
  LET start == [types |-> IF file_types.some THEN file_types.val ELSE DefaultFileTypes,
                files |-> ScanStart(old),
                structure |-> NewLevel]
  IN ScanDirs(start, d, Tree)

(***************************************************************************)
(* search_code                                                             *)
(***************************************************************************)
\* the width of the context on each side of a match
ContextWidth == 50

\* A faulty SearchMatch: the context ends ContextWidth after the start of
\* the match instead of after its end.
SearchMatchShortContext(content, m) ==
  [match |-> SubSeq(content, m.start, m.end - 1),
   line |-> LineNumber(content, m),
   context |-> SubSeq(content, Max(0, m.start - 1 - ContextWidth) + 1,
                      Min(Len(content), m.start - 1 + ContextWidth))]

\* one entry of file_matches
SearchMatch(content, m) ==
  [match |-> SubSeq(content, m.start, m.end - 1),
   line |-> LineNumber(content, m),
   context |-> SubSeq(content, Max(0, m.start - 1 - ContextWidth) + 1,
                      Min(Len(content), m.end - 1 + ContextWidth))]

\* file_matches for one file
FileMatches(content, pattern) ==
  LET ms == FindIter(content, pattern, 1)
  IN [i \in 1..Len(ms) |-> SearchMatch(content, ms[i])]

RECURSIVE SearchItems(_, _, _)
\* for file_path, file_info in self.files.items()
SearchItems(items, d, pattern) ==
  IF items = <<>> THEN <<>>
  ELSE LET content == Text(ReadFile(d, Head(items).key))
           file_matches == FileMatches(content, pattern)
       IN (IF file_matches # <<>>
           THEN << [file |-> Head(items).value.rel_path, matches |-> file_matches] >>
           ELSE <<>>)
          \o SearchItems(Tail(items), d, pattern)

SearchCode(items, d, pattern) == SearchItems(items, d, pattern)

(***************************************************************************)
(* find_bugs                                                               *)
(***************************************************************************)
Rule(pattern, bug_type, suggestion) ==
  [pattern |-> pattern, type |-> bug_type, message |-> suggestion]

\* the list `patterns`
Patterns ==
  << Rule(Lits(<<"e","x","c","e","p","t",":">>),
          "Bare except clause", "Use specific exceptions"),
     Rule(Lits(<<"e","x","c","e","p","t"," ","E","x","c","e","p","t","i","o","n",":">>),
          "Too broad exception handling", "Use more specific exceptions"),
     Rule(Lits(<<".","g","e","t","(">>) \o <<NoneOf({","}, "+")>> \o Lits(<<")">>),
          "dict.get() without default",
          "Provide default value to avoid potential None"),
     Rule(Lits(<<"p","r","i","n","t","(">>) \o <<Dot("*")>> \o Lits(<<")">>),
          "Debug print statement", "Remove debug prints"),
     Rule(<<Dot("*")>> \o Lits(<<"=">>) \o <<Spaces("*")>> \o Lits(<<"[","]">>)
            \o <<Spaces("*")>> \o Lits(<<"\n","f","o","r">>) \o <<Dot("*")>>
            \o Lits(<<":">>) \o <<Dot("*")>> \o Lits(<<".","a","p","p","e","n","d">>),
          "Inefficient list building", "Use list comprehension"),
     Rule(Lits(<<"i","f">>) \o <<Spaces("+"), NoneOf({"=","!","<",">"}, "+"), Spaces("+")>>
            \o Lits(<<"=","=">>) \o <<Spaces("+")>> \o Lits(<<"T","r","u","e">>),
          "Unnecessary comparison to True", "Use \"if condition:\" instead"),
     Rule(Lits(<<"i","f">>) \o <<Spaces("+"), NoneOf({"=","!","<",">"}, "+"), Spaces("+")>>
            \o Lits(<<"=","=">>) \o <<Spaces("+")>> \o Lits(<<"F","a","l","s","e">>),
          "Unnecessary comparison to False", "Use \"if not condition:\" instead") >>

\* the findings of one rule: one per match, in match order
RuleBugs(rel_path, content, rule) ==
  LET ms == FindIter(content, rule.pattern, 1)
  IN [i \in 1..Len(ms) |->
        [file |-> rel_path, line |-> LineNumber(content, ms[i]),
         type |-> rule.type, message |-> rule.message]]

RECURSIVE PatternBugs(_, _, _)
RECURSIVE InsertByLine(_, _)
\* bug put into a sequence sorted by line, after the bugs of the same line
InsertByLine(bugs, bug) ==
  IF bugs = <<>> THEN <<bug>>
  ELSE IF bug.line < Head(bugs).line THEN <<bug>> \o bugs
  ELSE <<Head(bugs)>> \o InsertByLine(Tail(bugs), bug)

RECURSIVE SortByLine(_)
SortByLine(bugs) ==
  IF bugs = <<>> THEN <<>>
  ELSE InsertByLine(SortByLine(SubSeq(bugs, 1, Len(bugs) - 1)), bugs[Len(bugs)])

\* A faulty PatternBugs: the findings of a file sorted by line.
PatternBugsByLine(rel_path, content, rules) ==
  IF rules = <<>> THEN <<>>
  ELSE SortByLine(RuleBugs(rel_path, content, Head(rules))
                  \o PatternBugs(rel_path, content, Tail(rules)))

\* for pattern, bug_type, suggestion in patterns
PatternBugs(rel_path, content, rules) ==
  IF rules = <<>> THEN <<>>
  ELSE RuleBugs(rel_path, content, Head(rules))
       \o PatternBugs(rel_path, content, Tail(rules))

\* A faulty FileBugs: no `continue` after the syntax error, so the rules run
\* on the text that does not parse.
FileBugsGoesOn(items, d, file) ==
  LET content == ReadFile(d, file)
      rel_path == Lookup(items, file).rel_path
      parsed == Parse(content)
  IN IF Text(content) = <<>> THEN <<>>
     ELSE (IF ~parsed.ok
           THEN << [file |-> rel_path, line |-> parsed.lineno,
                    type |-> "Syntax Error", message |-> parsed.msg] >>
           ELSE <<>>)
          \o PatternBugs(rel_path, Text(content), Patterns)

\* the findings one pass of the loop over files_to_check adds for `file`
FileBugs(items, d, file) ==
  LET content == ReadFile(d, file)
      rel_path == Lookup(items, file).rel_path
      parsed == Parse(content)
  IN IF Text(content) = <<>> THEN <<>>
     ELSE IF ~parsed.ok
          THEN << [file |-> rel_path, line |-> parsed.lineno,
                   type |-> "Syntax Error", message |-> parsed.msg] >>
          ELSE PatternBugs(rel_path, Text(content), Patterns)

\* f.endswith('.py')
EndsWithPy(path) ==
  LET n == path[Len(path)]
  IN Len(n) >= 3 /\ SubSeq(n, Len(n) - 2, Len(n)) = <<".","p","y">>

\* files_to_check; an empty file_path stands for None and for ""
FilesToCheck(items, file_path) ==
  IF file_path # <<>>
  THEN IF HasKey(items, file_path) THEN <<file_path>> ELSE <<>>
  ELSE SelectSeq(KeysOf(items), EndsWithPy)

RECURSIVE CheckFiles(_, _, _)

\* A faulty CheckFiles: `break` in place of `continue`, so the run ends at the
\* first file that is empty, unreadable or does not parse.
CheckFilesStops(items, d, todo) ==
  IF todo = <<>> THEN <<>>
  ELSE LET content == ReadFile(d, Head(todo))
       IN IF Text(content) = <<>> \/ ~Parse(content).ok
          THEN FileBugs(items, d, Head(todo))
          ELSE FileBugs(items, d, Head(todo)) \o CheckFiles(items, d, Tail(todo))

\* for file in files_to_check
CheckFiles(items, d, todo) ==
  IF todo = <<>> THEN <<>>
  ELSE FileBugs(items, d, Head(todo)) \o CheckFiles(items, d, Tail(todo))

FindBugs(items, d, file_path) ==
  CheckFiles(items, d, FilesToCheck(items, file_path))

(***************************************************************************)
(* update_file                                                             *)
(***************************************************************************)
\* the path open() is given
UpdateTarget(file_path) ==
  IF IsAbs(file_path) THEN file_path ELSE Join(ProjectPath, file_path)

\* open(file_path, 'w') succeeds: the directory exists and the file, if there
\* is one, may be written
CanWrite(d, path) == path \in DOMAIN d /\ (d[path].exists => d[path].mode = "rw")

(***************************************************************************)
(* The state machine.  disk is the project tree; files and structure are   *)
(* the fields of the MCP object; op is the last call and ret what it       *)
(* returned.  lastScan is a history variable: the arguments and the tree   *)
(* of the last scan_project, the inventory it found in place, and whether  *)
(* it repeated the scan before it (same arguments, same tree).             *)
(***************************************************************************)
\* every program of at most MaxFrags fragments drawn from `names`
ProgramsOf(names) == UNION {[1..n -> names] : n \in 0..MaxFrags}

\* the tree in which a.py holds the program a, b.py is the file b, and
\* sub/c.py and d.js are as given
Disk(a, b, c, d) ==
  [p \in FilePaths |->
     CASE p = PathA -> File(a, "rw")
       [] p = PathB -> b
       [] p = PathC -> c
       [] p = PathD -> d]

\* b.py as a project may hold it: missing, broken, empty, unreadable, clean
FilesB ==
  {Absent, File(<<"abcdef">>, "rw"), File(<<>>, "rw"), File(<<"if">>, "none"),
   File(<<"if">>, "rw")}

\* the trees the analyzer is run on
AnalyzeDisks ==
  {Disk(a, Absent, Absent, Absent) :
     a \in ProgramsOf({"import", "from", "fromrel", "def", "class", "list",
                       "try", "abcdef"})}
  \cup {Disk(<<"import">>, b, Absent, Absent) : b \in FilesB}
  \cup {Disk(<<"import", x, "from">>, Absent, Absent, Absent) :
          x \in {"def", "class", "list"}}

\* the trees the pattern scanner is run on
BugDisks ==
  {Disk(a, Absent, Absent, File(<<"abcdef">>, "rw")) :
     a \in ProgramsOf({"try", "def", "class", "list", "if", "abcdef"})}
  \cup {Disk(a, b, File(<<"class">>, "rw"), File(<<"try">>, "rw")) :
          a \in {<<"try">>, <<"abcdef">>}, b \in FilesB}

\* the trees that are searched
SearchDisks ==
  {Disk(a, Absent, Absent, Absent) :
     a \in ProgramsOf({"abc", "abcdef", "pad", "try"})}
  \cup {Disk(<<"abc">>, b, File(<<"abcdef", "abc">>, "rw"), File(<<"abc">>, "rw")) :
          b \in FilesB}

\* the trees that are indexed
ScanDisks ==
  {Disk(a, b, c, d) :
     a \in ProgramsOf({"abc"}), b \in FilesB,
     c \in {Absent, File(<<"class">>, "rw")},
     d \in {Absent, File(<<"abcdef">>, "rw")}}

\* the file_types arguments tried
FileTypeArgs ==
  {NoArg, Some(<< <<"*",".","j","s">> >>), Some(<< <<"?",".","p","y">>, <<"*">> >>)}

\* the paths analyze_python_file is called with
AnalyzePaths == {PathA, PathB, PathGone}

\* the patterns search_code is called with
SearchPatterns == {Lits(<<"a","b","c">>), Lits(<<"e","x","c","e","p","t",":">>)}

\* the file_path arguments of find_bugs; <<>> is None
BugPaths == {<<>>, PathD}

\* the file_path arguments of update_file
UpdatePaths == {<<NameB>>, PathGone}

\* the content arguments of update_file
UpdateContents == {<<"try">>}

InitFrom(disks) ==
  /\ disk \in disks
  /\ files = <<>>
  /\ structure = EmptyDict
  /\ op = [name |-> "init", arg |-> <<>>]
  /\ ret = <<>>
  /\ lastScan = [done |-> FALSE, types |-> NoArg, disk |-> disk,
                 before |-> <<>>, again |-> FALSE]

scan_project(args) ==
  \E file_types \in args :
    LET r == Scan(files, disk, file_types)
    IN /\ files' = r.files
       /\ structure' = r.structure
       /\ op' = [name |-> "scan_project", arg |-> file_types]
       /\ ret' = <<>>
       /\ lastScan' = [done |-> TRUE, types |-> file_types, disk |-> disk,
                       before |-> files,
                       again |-> /\ lastScan.done
                                 /\ lastScan.types = file_types
                                 /\ lastScan.disk = disk]
       /\ UNCHANGED disk

analyze_python_file ==
  \E file_path \in AnalyzePaths :
    /\ ret' = Analyze(ReadFile(disk, file_path))
    /\ op' = [name |-> "analyze_python_file", arg |-> file_path]
    /\ UNCHANGED <<disk, files, structure, lastScan>>

search_code ==
  \E pattern \in SearchPatterns :
    /\ ret' = SearchCode(files, disk, pattern)
    /\ op' = [name |-> "search_code", arg |-> pattern]
    /\ UNCHANGED <<disk, files, structure, lastScan>>

find_bugs ==
  \E file_path \in BugPaths :
    /\ ret' = FindBugs(files, disk, file_path)
    /\ op' = [name |-> "find_bugs", arg |-> file_path]
    /\ UNCHANGED <<disk, files, structure, lastScan>>

update_file ==
  \E file_path \in UpdatePaths, content \in UpdateContents :
    LET target == UpdateTarget(file_path)
    IN /\ IF CanWrite(disk, target)
          THEN /\ disk' = [disk EXCEPT ![target] = File(content, "rw")]
               /\ ret' = TRUE
          ELSE /\ disk' = disk
               /\ ret' = FALSE
       /\ op' = [name |-> "update_file", arg |-> <<file_path, content>>]
       /\ UNCHANGED <<files, structure, lastScan>>

\* the analyzer on any tree a write can leave
InitAnalyze == InitFrom(AnalyzeDisks)

NextAnalyze == analyze_python_file \/ update_file

SpecAnalyze == InitAnalyze /\ [][NextAnalyze]_vars

\* the pattern scanner on any index a scan and a write can leave
InitBugs == InitFrom(BugDisks)

NextBugs == scan_project({NoArg}) \/ find_bugs \/ update_file

SpecBugs == InitBugs /\ [][NextBugs]_vars

\* search on any index a scan and a write can leave
InitSearch == InitFrom(SearchDisks)

NextSearch == scan_project({NoArg}) \/ search_code \/ update_file

SpecSearch == InitSearch /\ [][NextSearch]_vars

\* the indexer under every file_types argument, with writes in between
InitScan == InitFrom(ScanDisks)

NextScan == scan_project(FileTypeArgs) \/ update_file

SpecScan == InitScan /\ [][NextScan]_vars

\* every operation on every tree above
Init == InitFrom(AnalyzeDisks \cup BugDisks \cup SearchDisks \cup ScanDisks)

Next ==
  \/ scan_project(FileTypeArgs)
  \/ analyze_python_file
  \/ search_code
  \/ find_bugs
  \/ update_file

Spec == Init /\ [][Next]_vars

(***************************************************************************)
(* Vocabulary of the properties.  These definitions say what a result      *)
(* should be in terms of the file's text and tree; they use none of the    *)
(* operators that compute the results.                                     *)
(***************************************************************************)
Range(seq) == {seq[i] : i \in 1..Len(seq)}

RECURSIVE Flatten(_)
\* The concatenation of a sequence of sequences.
Flatten(ss) == IF ss = <<>> THEN <<>> ELSE Head(ss) \o Flatten(Tail(ss))

\* the line of position s of text t
LineOfPosition(t, s) == 1 + Cardinality({i \in 1..(s - 1) : t[i] = "\n"})

\* the positions at which the word occurs in the text
Occurrences(t, word) ==
  {s \in 1..(Len(t) - Len(word) + 1) : SubSeq(t, s, s + Len(word) - 1) = word}

\* the elements of a set of numbers in increasing order
RECURSIVE Ascending(_)
Ascending(set) ==
  IF set = {} THEN <<>>
  ELSE LET least == CHOOSE x \in set : \A y \in set : x <= y
       IN <<least>> \o Ascending(set \ {least})

\* analyze_python_file has just returned
Analyzed == op.name = "analyze_python_file"

\* the content it read
AnalyzedContent == ReadFile(disk, op.arg)

\* ... and that content is a text that parses
AnalyzedClean ==
  Analyzed /\ Text(AnalyzedContent) # <<>> /\ Parse(AnalyzedContent).ok

AnalyzedWalk == Walk(Parse(AnalyzedContent).tree)

\* the record a function definition is reported with
Signature(node) == [name |-> node.name, line |-> node.lineno, args |-> node.args]

\* the strings an import statement is reported with
ImportStrings(node) ==
  IF node.type = "Import" THEN node.names
  ELSE IF node.type = "ImportFrom"
       THEN [i \in 1..Len(node.names) |->
               (IF node.module = None THEN <<>> ELSE node.module)
                 \o <<".">> \o node.names[i]]
       ELSE <<>>

\* the class record of a class definition
ClassRecord(node) ==
  [name |-> node.name, line |-> node.lineno,
   methods |-> LET defs == SelectSeq(node.body, LAMBDA n : n.type = "FunctionDef")
               IN [i \in 1..Len(defs) |-> Signature(defs[i])]]

\* the constructs on which extraction raises: those whose branch reads
\* node.parent
Offending(node) == node.type \in {"FunctionDef", "Assign"}

\* C1: for a file that parses, `functions` holds exactly the function
\* definitions whose parent is the module, the methods of every class are
\* exactly the function definitions of its body, and no definition is in both.
C1_FunctionsPartitioned ==
  AnalyzedClean =>
    LET tree == Parse(AnalyzedContent).tree
        top == {n \in Range(tree.body) : n.type = "FunctionDef"}
        classes == {n \in Range(AnalyzedWalk) : n.type = "ClassDef"}
        methods == UNION {Range(c.methods) : c \in Range(ret.classes)}
    IN /\ Range(ret.functions) = {Signature(n) : n \in top}
       /\ Range(ret.classes) = {ClassRecord(c) : c \in classes}
       /\ Range(ret.functions) \cap methods = {}

\* C2: the result has an `error` field exactly when the text that was read
\* does not parse; an unreadable or empty file gives {} without `error`.
C2_ErrorIffParseFailed ==
  Analyzed =>
    /\ ("error" \in DOMAIN ret) <=>
         (Text(AnalyzedContent) # <<>> /\ ~Parse(AnalyzedContent).ok)
    /\ Text(AnalyzedContent) = <<>> => DOMAIN ret = {}

\* C7: for a file that parses, every symbol of every from-import is recorded
\* as <module>.<symbol> (<module> empty when there is none), and every plain
\* import by its name.
C7_ImportsRecorded ==
  AnalyzedClean =>
    \A n \in Range(AnalyzedWalk) : Range(ImportStrings(n)) \subseteq Range(ret.imports)

\* the first position of the walk at which extraction raises, or 0
FirstOffender ==
  LET at == {i \in 1..Len(AnalyzedWalk) : Offending(AnalyzedWalk[i])}
  IN IF at = {} THEN 0 ELSE CHOOSE i \in at : \A j \in at : i <= j

\* the imports and the classes of the walk's positions 1..n, in walk order
ImportsUpTo(n) == Flatten([i \in 1..n |-> ImportStrings(AnalyzedWalk[i])])

ClassesUpTo(n) ==
  LET cs == SelectSeq(SubSeq(AnalyzedWalk, 1, n), LAMBDA x : x.type = "ClassDef")
  IN [i \in 1..Len(cs) |-> ClassRecord(cs[i])]

BugsFound == op.name = "find_bugs"

\* the files the run went over: the indexed file it was given or, given
\* none, every indexed file whose path ends in .py
Checked(path) ==
  /\ HasKey(files, path)
  /\ IF op.arg = <<>> THEN EndsWithPy(path) ELSE path = op.arg

CheckedPaths == {path \in Range(KeysOf(files)) : Checked(path)}

\* the findings of the run for the file
FindingsFor(path) ==
  SelectSeq(ret, LAMBDA b : b.file = Lookup(files, path).rel_path)

\* the file can be read and is not empty
HasText(path) == Text(ReadFile(disk, path)) # <<>>

Parses(path) == Parse(ReadFile(disk, path)).ok

\* the seven kinds in the order of the rule list
RuleKinds ==
  << "Bare except clause", "Too broad exception handling",
     "dict.get() without default", "Debug print statement",
     "Inefficient list building", "Unnecessary comparison to True",
     "Unnecessary comparison to False" >>

RuleIndex(kind) == CHOOSE i \in 1..Len(RuleKinds) : RuleKinds[i] = kind

\* C3: a checked file whose text does not parse gets exactly one finding, a
\* "Syntax Error" at the line the parser reports, and no finding of a rule.
C3_SyntaxErrorAlone ==
  BugsFound =>
    \A path \in CheckedPaths :
      (HasText(path) /\ ~Parses(path)) =>
        LET found == FindingsFor(path)
        IN /\ Len(found) = 1
           /\ found[1].type = "Syntax Error"
           /\ found[1].line = Parse(ReadFile(disk, path)).lineno

\* a checked file that does not parse and whose text holds `except:`
C3_Witness ==
  /\ BugsFound
  /\ \E path \in CheckedPaths :
       /\ HasText(path)
       /\ ~Parses(path)
       /\ Occurrences(Text(ReadFile(disk, path)), <<"e","x","c","e","p","t",":">>) # {}
       /\ Len(FindingsFor(path)) = 1

\* C4: the findings of a file that parses come rule by rule in the order of
\* the rule list, and within one rule in the order of the matches; they are
\* not sorted by line.
C4_RuleOrderThenMatchOrder ==
  BugsFound =>
    \A path \in CheckedPaths :
      (HasText(path) /\ Parses(path)) =>
        LET found == FindingsFor(path)
        IN \A i, j \in 1..Len(found) :
             i < j =>
               \/ RuleIndex(found[i].type) < RuleIndex(found[j].type)
               \/ /\ found[i].type = found[j].type
                  /\ found[i].line <= found[j].line

\* a finding of a later rule on an earlier line follows one of an earlier rule
C4_Witness ==
  /\ BugsFound
  /\ \E path \in CheckedPaths :
       /\ HasText(path)
       /\ Parses(path)
       /\ LET found == FindingsFor(path)
          IN \E i, j \in 1..Len(found) :
               /\ i < j
               /\ RuleIndex(found[i].type) < RuleIndex(found[j].type)
               /\ found[i].line > found[j].line

\* C5: the line of a finding of a rule is one plus the number of newlines
\* before the start of a match of that rule, and a text that parses and
\* holds `except:` on line 3 gets a "Bare except clause" finding at line 3.
C5_LineOfMatchStart ==
  BugsFound =>
    \A path \in CheckedPaths :
      (HasText(path) /\ Parses(path)) =>
        LET t == Text(ReadFile(disk, path))
            found == FindingsFor(path)
        IN /\ \A i \in 1..Len(found) :
                \E s \in 1..Len(t) :
                  /\ MatchAt(t, s, Patterns[RuleIndex(found[i].type)].pattern, 1) # NoMatch
                  /\ found[i].line = LineOfPosition(t, s)
           /\ \A s \in Occurrences(t, <<"e","x","c","e","p","t",":">>) :
                \E i \in 1..Len(found) :
                  /\ found[i].type = "Bare except clause"
                  /\ found[i].line = LineOfPosition(t, s)

\* `except:` on line 3 of a text that parses, reported at line 3
C5_Witness ==
  /\ BugsFound
  /\ \E path \in CheckedPaths :
       /\ HasText(path)
       /\ Parses(path)
       /\ \E s \in Occurrences(Text(ReadFile(disk, path)), <<"e","x","c","e","p","t",":">>) :
            LineOfPosition(Text(ReadFile(disk, path)), s) = 3
       /\ \E b \in Range(FindingsFor(path)) :
            b.type = "Bare except clause" /\ b.line = 3

\* the findings of the file when it is the only file checked
AloneFindings(path) ==
  FindBugs(<<[key |-> path, value |-> Lookup(files, path)]>>, disk, path)

\* the place of the file of a finding in the iteration over self.files
PlaceOf(bug) ==
  CHOOSE i \in 1..Len(files) : files[i].value.rel_path = bug.file

\* C9: in a project-wide run a file that is unreadable, empty or does not
\* parse changes the findings of no other file: every file that parses has
\* all the findings it has when checked alone, a file that fails has at most
\* its syntax error, and the findings come in the order of the files.
C9_FailuresStayLocal ==
  (BugsFound /\ op.arg = <<>>) =>
    /\ \A path \in CheckedPaths :
         IF HasText(path) /\ Parses(path)
         THEN FindingsFor(path) = AloneFindings(path)
         ELSE Len(FindingsFor(path)) <= 1
    /\ \A i, j \in 1..Len(ret) : i < j => PlaceOf(ret[i]) <= PlaceOf(ret[j])

\* a project-wide run in which a file that fails comes before a file that
\* parses and has findings, which are all reported
C9_Witness ==
  /\ BugsFound
  /\ op.arg = <<>>
  /\ \E p, q \in CheckedPaths :
       /\ ~(HasText(p) /\ Parses(p))
       /\ HasText(q) /\ Parses(q)
       /\ \E i, j \in 1..Len(files) :
            i < j /\ files[i].key = p /\ files[j].key = q
       /\ FindingsFor(q) # <<>>

(***************************************************************************)
(* search_code                                                             *)
(***************************************************************************)
Searched == op.name = "search_code"

\* the word a pattern of literals stands for
WordOf(pattern) == [i \in 1..Len(pattern) |-> CHOOSE c \in pattern[i].cls.set : TRUE]

\* what the search should report for one occurrence of the word
ExpectedMatch(t, word, s) ==
  [match |-> word,
   line |-> LineOfPosition(t, s),
   context |-> SubSeq(t, IF s > ContextWidth THEN s - ContextWidth ELSE 1,
                      IF s + Len(word) - 1 + ContextWidth < Len(t)
                      THEN s + Len(word) - 1 + ContextWidth ELSE Len(t))]

ExpectedMatches(t, word) ==
  LET at == Ascending(Occurrences(t, word))
  IN [i \in 1..Len(at) |-> ExpectedMatch(t, word, at[i])]

\* the text search_code reads for the i-th indexed file
IndexedText(i) == Text(ReadFile(disk, files[i].key))

AbcDefAbc == <<"a","b","c","\n","d","e","f","\n","a","b","c">>

\* C6: search_code reports, for every indexed file with a match and in the
\* order of the index, the matches in the order of the text, each with its
\* line (one plus the newlines before it) and its context: the match with
\* the 50 characters before and after it, cut at the ends of the text.  For
\* "abc\ndef\nabc" and the pattern abc these are two matches, on lines 1 and 3.
C6_SearchMatches ==
  Searched =>
    LET word == WordOf(op.arg)
        hits == SelectSeq([i \in 1..Len(files) |-> i],
                          LAMBDA i : Occurrences(IndexedText(i), word) # {})
    IN /\ ret = [k \in 1..Len(hits) |->
                   [file |-> files[hits[k]].value.rel_path,
                    matches |-> ExpectedMatches(IndexedText(hits[k]), word)]]
       /\ \A k \in 1..Len(hits) :
            (IndexedText(hits[k]) = AbcDefAbc /\ word = <<"a","b","c">>) =>
              /\ Len(ret[k].matches) = 2
              /\ ret[k].matches[1].line = 1
              /\ ret[k].matches[2].line = 3
              /\ ret[k].matches[1].context # <<>>
              /\ ret[k].matches[2].context # <<>>

\* "abc\ndef\nabc" searched for abc: two matches, the second on line 3, the
\* context of the first cut at both ends of the text
C6_Witness ==
  /\ Searched
  /\ \E k \in 1..Len(ret) :
       /\ Len(ret[k].matches) = 2
       /\ ret[k].matches[1].context = AbcDefAbc
       /\ ret[k].matches[2].line = 3

(***************************************************************************)
(* scan_project                                                            *)
(***************************************************************************)
\* the inventory as a set of entries
Entries(items) == {items[i].value : i \in 1..Len(items)}

\* C10: a scan_project that repeats the one before it, with the same
\* patterns on the same tree, leaves the same inventory: the same entries
\* (path, relative path, type, size), each path once, and every entry a file
\* of the tree that matches one of the patterns.
C10_RescanSameInventory ==
  (op.name = "scan_project" /\ lastScan.again) =>
    LET types == IF op.arg.some THEN op.arg.val ELSE DefaultFileTypes
    IN /\ Entries(files) = Entries(lastScan.before)
       /\ \A i, j \in 1..Len(files) : files[i].key = files[j].key => i = j
       /\ \A i \in 1..Len(files) :
            /\ files[i].value.path = files[i].key
            /\ disk[files[i].key].exists
            /\ \E k \in 1..Len(types) :
                 FnMatch(files[i].key[Len(files[i].key)], types[k])
       /\ \A p \in FilePaths :
            (disk[p].exists /\ \E k \in 1..Len(types) : FnMatch(p[Len(p)], types[k]))
              => HasKey(files, p)

\* a repeated scan that indexes some of the files of the tree and not others
C10_Witness ==
  /\ op.name = "scan_project"
  /\ lastScan.again
  /\ files # <<>>
  /\ Len(files) < Cardinality({p \in FilePaths : disk[p].exists})

====
